---- MODULE Spec2Model ----
(***************************************************************************)
(* GitHubProfileSearch (src/script.js): the search / fetch / display       *)
(* pipeline, its client-side rate gate and the capped search history.      *)
(*                                                                         *)
(* JavaScript runs one task at a time, and the continuations of a settled  *)
(* promise (micro-tasks) run before the next task, so every action below   *)
(* is one task together with the continuations it wakes up: a user event   *)
(* up to the first await, or the arrival of a network event followed by    *)
(* the code behind the await it settles.                                   *)
(***************************************************************************)
EXTENDS Integers, Sequences, FiniteSets, TLC

\* ----------------------------------------------------------------- bounds
MaxSearches == 2        \* calls of handleSearch in one behaviour
StartMs     == 250      \* clock value (ms) when the page is constructed
TickMs      == 750      \* the clock advances in steps of this many ms
MaxNow      == 1100     \* the clock stops advancing here
NumUsers    == 6        \* distinct usernames offered to the history

\* ------------------------------------------------------ program constants
InitialRemaining == 60  \* rateLimit.remaining set by the constructor
InitialReset     == 0   \* rateLimit.reset set by the constructor
MsPerSecond      == 1000
HistoryCap       == 5

MsgInvalidInput == "Please enter a GitHub username"
MsgGateClosed   == "Rate limit exceeded. Please try again later."
MsgNotFound     == "User not found. Please check the username and try again."
MsgForbidden    == "API rate limit exceeded. Please try again later."
MsgFetchFailed  == "Failed to fetch user profile. Please try again."
\* message of the TypeError a rejected fetch() carries, and of the error a
\* rejected response.json() carries (both made by the browser)
MsgNetwork      == "Failed to fetch"
MsgBody         == "Unexpected end of JSON input"
NoMessage       == ""

\* --------------------------------------------------------------- numbers
\* A JavaScript number as the code meets it: an integer or NaN.
NaN    == [nan |-> TRUE, val |-> 0]
Num(n) == [nan |-> FALSE, val |-> n]
\* a <= b and a < b of JavaScript: false when an operand is NaN
JsLE(a, b) == ~a.nan /\ ~b.nan /\ a.val <= b.val
JsLT(a, b) == ~a.nan /\ ~b.nan /\ a.val < b.val
JsTimes(a, k) == IF a.nan THEN NaN ELSE Num(a.val * k)

\* --------------------------------------------------------------- strings
\* A string is a sequence of one-character strings.
Whitespace == {" "}
Digits == {"0", "1", "2", "3", "4", "5", "6", "7", "8", "9"}
DigitVal(c) == CASE c = "0" -> 0 [] c = "1" -> 1 [] c = "2" -> 2 [] c = "3" -> 3
                 [] c = "4" -> 4 [] c = "5" -> 5 [] c = "6" -> 6 [] c = "7" -> 7
                 [] c = "8" -> 8 [] c = "9" -> 9

RECURSIVE TrimStart(_)
TrimStart(s) == IF s # <<>> /\ Head(s) \in Whitespace THEN TrimStart(Tail(s)) ELSE s
RECURSIVE TrimEnd(_)
TrimEnd(s) == IF s # <<>> /\ s[Len(s)] \in Whitespace
              THEN TrimEnd(SubSeq(s, 1, Len(s) - 1)) ELSE s
\* the input taken as typed, without .trim()
Trim_None(s) == s
\* String.prototype.trim
Trim(s) == TrimEnd(TrimStart(s))

\* the longest prefix of s made of digits
RECURSIVE DigitPrefix(_)
DigitPrefix(s) == IF s # <<>> /\ Head(s) \in Digits
                  THEN <<Head(s)>> \o DigitPrefix(Tail(s)) ELSE <<>>
RECURSIVE DecimalValue(_)
DecimalValue(ds) == IF ds = <<>> THEN 0
                    ELSE 10 * DecimalValue(SubSeq(ds, 1, Len(ds) - 1)) + DigitVal(ds[Len(ds)])
\* parseInt(s): leading white space, an optional sign, then the longest run
\* of digits; NaN when there is no digit
ParseInt(s) ==
    LET t    == TrimStart(s)
        neg  == t # <<>> /\ Head(t) = "-"
        body == IF t # <<>> /\ Head(t) \in {"-", "+"} THEN Tail(t) ELSE t
        ds   == DigitPrefix(body)
    IN  IF ds = <<>> THEN NaN
        ELSE Num(IF neg THEN 0 - DecimalValue(ds) ELSE DecimalValue(ds))

\* ------------------------------------------------------------- rate gate
\* headers.get(name): the header's text, or null when the header is absent
Absent == [present |-> FALSE, text |-> <<>>]
Header(s) == [present |-> TRUE, text |-> s]
\* headers.get(name) || '0': null and the empty string are falsy
OrZero(h) == IF h.present /\ h.text # <<>> THEN h.text ELSE <<"0">>

\* updateRateLimit that writes both fields from X-RateLimit-Remaining
updateRateLimit_OneHeader(headers) ==
    [remaining |-> ParseInt(OrZero(headers.remaining)),
     reset     |-> ParseInt(OrZero(headers.remaining))]

\* updateRateLimit(headers): the value this.rateLimit is overwritten with
updateRateLimit(headers) ==
    [remaining |-> ParseInt(OrZero(headers.remaining)),
     reset     |-> ParseInt(OrZero(headers.reset))]

\* new Date(ms) compared with <: the time value, NaN for an Invalid Date.
\* (Times stay inside the range of Date, +-8.64e15 ms.)
DateOf(ms) == ms

\* checkRateLimit with `now <= resetTime` for `now < resetTime`
checkRateLimit_NotStrict(rl, t) ==
    IF JsLE(rl.remaining, Num(0))
    THEN IF JsLE(Num(t), JsTimes(rl.reset, MsPerSecond)) THEN FALSE ELSE TRUE
    ELSE TRUE

\* checkRateLimit comparing the clock (ms) with reset (s) without the * 1000
checkRateLimit_Seconds(rl, t) ==
    IF JsLE(rl.remaining, Num(0))
    THEN IF JsLT(Num(t), rl.reset) THEN FALSE ELSE TRUE
    ELSE TRUE

\* checkRateLimit() with the clock reading t (ms since the epoch)
checkRateLimit(rl, t) ==
    IF JsLE(rl.remaining, Num(0))
    THEN LET resetTime == DateOf(JsTimes(rl.reset, MsPerSecond))
             nowDate   == DateOf(Num(t))
         IN  IF JsLT(nowDate, resetTime) THEN FALSE ELSE TRUE
    ELSE TRUE


\* ------------------------------------------------------------ the inputs
\* what the user may have typed into usernameInput before a search
TypedInputs == {<<>>, <<" ">>, <<" ", "a", " ">>}
\* data-username of the suggestion buttons
SuggestionNames == {<<"a">>}
\* status of a response to the profile request / the repository request
ProfileStatuses == {200, 404, 403, 500}
RepoStatuses    == {200, 500}
\* X-RateLimit-Remaining / X-RateLimit-Reset of a profile response
ResponseHeaders ==
    {[seen |-> TRUE, remaining |-> h[1], reset |-> h[2]] : h \in
        {<<Absent, Absent>>,
         <<Header(<<"0">>), Header(<<"1">>)>>,
         <<Absent, Header(<<"1">>)>>,
         <<Header(<<"7">>), Header(<<"1">>)>>,
         <<Header(<<"x">>), Header(<<"x">>)>>}}
NoHeaders == [seen |-> FALSE, remaining |-> Absent, reset |-> Absent]

\* response.ok
Ok(status) == status >= 200 /\ status <= 299

\* ------------------------------------------------------------- the state
VARIABLES
    rateLimit,          \* this.rateLimit: [remaining, reset]
    now,                \* the clock new Date() reads, ms
    checkResult,        \* what the latest call of checkRateLimit() returned
    lastHeaders,        \* the headers of the latest call of updateRateLimit
    usernameInput,      \* usernameInput.value
    loading,            \* loadingSpinner carries the class 'show'
    searchBtnDisabled,  \* searchBtn.disabled
    errorShown,         \* errorMessage carries the class 'show'
    errorText,          \* errorText.textContent
    profileShown,       \* profileSection carries the class 'show'
    profileFields,      \* the profile written into the profile elements
    currentRepos,       \* this.currentRepos
    reposDisplay,       \* reposSection.style.display
    reposList,          \* what reposList.innerHTML was rendered from
    searches,           \* the calls of handleSearch, by number
    history,            \* the array `history` of addSearchHistory's closure
    storage,            \* localStorage['github-search-history']
    lastAdded           \* the username of the latest addToHistory call

gate    == <<rateLimit, checkResult, lastHeaders>>
errors  == <<errorShown, errorText>>
spinner == <<loading, searchBtnDisabled>>
profile == <<profileShown, profileFields, currentRepos>>
panel   == <<reposDisplay, reposList>>
hist    == <<history, storage, lastAdded>>
vars == <<rateLimit, now, checkResult, lastHeaders, usernameInput, loading,
          searchBtnDisabled, errorShown, errorText, profileShown,
          profileFields, currentRepos, reposDisplay, reposList, searches,
          history, storage, lastAdded>>

SearchIds == 1 .. MaxSearches

\* one of the two promises of a search: fetchUserProfile / fetchUserRepositories
\*   state "none"      not called
\*         "pending"   fetch() issued, no response yet
\*         "json"      response received, awaiting response.json()
\*         "fulfilled" / "rejected"
\*   status: the status of the response, 0 while there is none
NotCalled == [state |-> "none", status |-> 0]
Issued    == [state |-> "pending", status |-> 0]

\* a call of handleSearch
\*   pc "idle" not started, "awaiting" at the await of Promise.all,
\*      "returned" run to its end
\*   error: the message it passed to showError; displayed: it ran displayProfile
IdleSearch == [pc |-> "idle", username |-> <<>>, profile |-> NotCalled,
               repos |-> NotCalled, error |-> NoMessage, displayed |-> FALSE]

\* no profile written yet / this.currentRepos never assigned (undefined)
NoProfile == [search |-> 0, login |-> <<>>]
NoRepos   == [search |-> 0, items |-> <<>>]
\* the parsed body of a 200 response of search s
ProfileBody(s, username) == [search |-> s, login |-> username]
RepoBody(s, username)    == <<[search |-> s, owner |-> username]>>

InitCommon ==
    /\ usernameInput = <<>>
    /\ loading = FALSE
    /\ searchBtnDisabled = FALSE
    /\ errorShown = FALSE
    /\ errorText = NoMessage
    /\ profileShown = FALSE
    /\ profileFields = NoProfile
    /\ currentRepos = NoRepos
    /\ reposDisplay = ""
    /\ reposList = NoRepos
    /\ searches = [s \in SearchIds |-> IdleSearch]
    /\ lastHeaders = NoHeaders
    /\ lastAdded = ""

\* the constructor (which calls checkRateLimit once) and
\* initializeAdditionalFeatures, on a browser with an empty local storage
Init ==
    /\ InitCommon
    /\ rateLimit = [remaining |-> Num(InitialRemaining), reset |-> Num(InitialReset)]
    /\ now = StartMs
    /\ checkResult = checkRateLimit(rateLimit, now)
    /\ storage = Absent
    /\ history = <<>>

\* ------------------------------------------------------------ handleSearch
Started == {s \in SearchIds : searches[s].pc # "idle"}
NextSearch == Cardinality(Started) + 1

\* handleSearch() up to its first await, as call number s, with v in the input
handleSearch(s, v) ==
    LET username == Trim(v) IN
    /\ usernameInput' = v
    /\ IF username = <<>>
       THEN /\ errorText' = MsgInvalidInput
            /\ errorShown' = TRUE
            /\ searches' = [searches EXCEPT ![s] =
                   [@ EXCEPT !.pc = "returned", !.error = MsgInvalidInput]]
            /\ UNCHANGED <<checkResult, loading, searchBtnDisabled, profileShown>>
       ELSE IF ~checkRateLimit(rateLimit, now)
       THEN /\ checkResult' = FALSE
            /\ errorText' = MsgGateClosed
            /\ errorShown' = TRUE
            /\ searches' = [searches EXCEPT ![s] =
                   [@ EXCEPT !.pc = "returned", !.username = username,
                             !.error = MsgGateClosed]]
            /\ UNCHANGED <<loading, searchBtnDisabled, profileShown>>
       ELSE /\ checkResult' = TRUE
            /\ loading' = TRUE                \* showLoading
            /\ searchBtnDisabled' = TRUE
            /\ errorShown' = FALSE            \* hideError
            /\ errorText' = errorText
            /\ profileShown' = FALSE          \* hideProfile
            /\ searches' = [searches EXCEPT ![s] =
                   [@ EXCEPT !.pc = "awaiting", !.username = username,
                             !.profile = Issued, !.repos = Issued]]
    /\ UNCHANGED <<rateLimit, lastHeaders, now, profileFields, currentRepos>>
    /\ UNCHANGED <<panel, hist>>

\* the user types v and clicks the search button (a disabled button gets no click)
ClickSearch ==
    /\ NextSearch \in SearchIds
    /\ ~searchBtnDisabled
    /\ \E v \in TypedInputs : handleSearch(NextSearch, v)

\* the user types v and presses Enter in the input
PressEnter ==
    /\ NextSearch \in SearchIds
    /\ \E v \in TypedInputs : handleSearch(NextSearch, v)

\* the user clicks a suggestion button
ClickSuggestion ==
    /\ NextSearch \in SearchIds
    /\ \E u \in SuggestionNames : handleSearch(NextSearch, u)


\* ------------------------------------------- the continuations of a search
\* a display guarded by a request-generation counter: the result of a search
\* older than the one on display is dropped
displayProfile_KeepNewer(prof, repos) ==
    /\ IF prof.search < profileFields.search
       THEN UNCHANGED <<profileFields, currentRepos>>
       ELSE profileFields' = prof /\ currentRepos' = repos
    /\ profileShown' = TRUE

\* displayProfile(profile, repos)
displayProfile(prof, repos) ==
    /\ profileFields' = prof
    /\ currentRepos' = repos
    /\ profileShown' = TRUE                   \* showProfile

\* a join that waits for the profile only
PromiseAll_ProfileOnly(rec) ==
    IF "rejected" \in {rec.profile.state, rec.repos.state} THEN "rejected"
    ELSE IF rec.profile.state = "fulfilled" THEN "fulfilled"
    ELSE "pending"

\* a join that waits until both promises have settled (Promise.allSettled)
PromiseAll_Settled(rec) ==
    IF {rec.profile.state, rec.repos.state} \subseteq {"fulfilled", "rejected"}
    THEN IF "rejected" \in {rec.profile.state, rec.repos.state}
         THEN "rejected" ELSE "fulfilled"
    ELSE "pending"

\* a join that overlooks a rejected repository promise
PromiseAll_IgnoreRepoReject(rec) ==
    IF rec.profile.state = "rejected" THEN "rejected"
    ELSE IF rec.profile.state = "fulfilled" /\ rec.repos.state = "fulfilled"
    THEN "fulfilled"
    ELSE "pending"

\* Promise.all([profile, repos]): rejected as soon as one of the two is
\* rejected, fulfilled once both are fulfilled, pending otherwise
PromiseAll(rec) ==
    IF "rejected" \in {rec.profile.state, rec.repos.state} THEN "rejected"
    ELSE IF rec.profile.state = "fulfilled" /\ rec.repos.state = "fulfilled"
    THEN "fulfilled"
    ELSE "pending"

\* what fetchUserRepositories of search s resolved to: [] for a response
\* that is not ok, the parsed body otherwise
ReposValue(s, rec) ==
    [search |-> s,
     items  |-> IF Ok(rec.repos.status) THEN RepoBody(s, rec.username) ELSE <<>>]

\* The promises of search s have just become rec.profile and rec.repos.
\* The code behind `await Promise.all` runs once, when Promise.all settles:
\*   try:   displayProfile(profile, repos); hideLoading()
\*   catch: hideLoading(); handleError(error)   (error.message = msg)
\* A promise that settles after handleSearch has returned changes nothing.
Continue(s, rec, msg) ==
    IF rec.pc = "awaiting" /\ PromiseAll(rec) = "rejected"
    THEN /\ searches' = [searches EXCEPT ![s] =
                [rec EXCEPT !.pc = "returned", !.error = msg]]
         /\ loading' = FALSE                  \* hideLoading
         /\ searchBtnDisabled' = FALSE
         /\ errorText' = msg                  \* handleError -> showError
         /\ errorShown' = TRUE
         /\ UNCHANGED profile
    ELSE IF rec.pc = "awaiting" /\ PromiseAll(rec) = "fulfilled"
    THEN /\ searches' = [searches EXCEPT ![s] =
                [rec EXCEPT !.pc = "returned", !.displayed = TRUE]]
         /\ displayProfile(ProfileBody(s, rec.username), ReposValue(s, rec))
         /\ loading' = FALSE                  \* hideLoading
         /\ searchBtnDisabled' = FALSE
         /\ UNCHANGED errors
    ELSE /\ searches' = [searches EXCEPT ![s] = rec]
         /\ UNCHANGED <<spinner, errors, profile>>

\* the message without the branch for status 403
ProfileErrorMessage_No403(status) ==
    IF status = 404 THEN MsgNotFound ELSE MsgFetchFailed

\* the message fetchUserProfile throws for a response that is not ok
ProfileErrorMessage(status) ==
    IF status = 404 THEN MsgNotFound
    ELSE IF status = 403 THEN MsgForbidden
    ELSE MsgFetchFailed

\* ------------------------------------------------------- fetchUserProfile
\* the profile request of search s is answered with a status and headers
ProfileResponse(s) ==
    /\ searches[s].profile.state = "pending"
    /\ \E status \in ProfileStatuses, headers \in ResponseHeaders :
         IF ~Ok(status)
         THEN /\ Continue(s, [searches[s] EXCEPT
                     !.profile = [state |-> "rejected", status |-> status]],
                     ProfileErrorMessage(status))
              /\ UNCHANGED gate
         ELSE /\ lastHeaders' = headers
              /\ rateLimit' = updateRateLimit(lastHeaders')
              /\ Continue(s, [searches[s] EXCEPT
                     !.profile = [state |-> "json", status |-> status]], NoMessage)
              /\ UNCHANGED checkResult
    /\ UNCHANGED <<now, usernameInput, panel, hist>>

\* the profile request of search s fails in transport: fetch() rejects
ProfileNetworkError(s) ==
    /\ searches[s].profile.state = "pending"
    /\ Continue(s, [searches[s] EXCEPT
           !.profile = [state |-> "rejected", status |-> 0]], MsgNetwork)
    /\ UNCHANGED <<gate, now, usernameInput, panel, hist>>

\* response.json() of the profile response settles
ProfileJson(s) ==
    /\ searches[s].profile.state = "json"
    /\ \E parsed \in BOOLEAN :
         Continue(s, [searches[s] EXCEPT
             !.profile.state = IF parsed THEN "fulfilled" ELSE "rejected"],
             IF parsed THEN NoMessage ELSE MsgBody)
    /\ UNCHANGED <<gate, now, usernameInput, panel, hist>>

\* -------------------------------------------------- fetchUserRepositories
\* the repository request of search s is answered: not ok returns []
ReposResponse(s) ==
    /\ searches[s].repos.state = "pending"
    /\ \E status \in RepoStatuses :
         Continue(s, [searches[s] EXCEPT
             !.repos = [state |-> IF Ok(status) THEN "json" ELSE "fulfilled",
                        status |-> status]], NoMessage)
    /\ UNCHANGED <<gate, now, usernameInput, panel, hist>>

\* the repository request of search s fails in transport: fetch() rejects
ReposNetworkError(s) ==
    /\ searches[s].repos.state = "pending"
    /\ Continue(s, [searches[s] EXCEPT
           !.repos = [state |-> "rejected", status |-> 0]], MsgNetwork)
    /\ UNCHANGED <<gate, now, usernameInput, panel, hist>>

\* response.json() of the repository response settles
ReposJson(s) ==
    /\ searches[s].repos.state = "json"
    /\ \E parsed \in BOOLEAN :
         Continue(s, [searches[s] EXCEPT
             !.repos.state = IF parsed THEN "fulfilled" ELSE "rejected"],
             IF parsed THEN NoMessage ELSE MsgBody)
    /\ UNCHANGED <<gate, now, usernameInput, panel, hist>>

\* ------------------------------------------------------ toggleRepositories
\* displayRepositories(repos): what reposList.innerHTML is rendered from
\* (an undefined or empty list renders the 'No repositories found' text)
displayRepositories(repos) == repos

toggleRepositories ==
    /\ IF reposDisplay = "none" \/ reposDisplay = ""
       THEN /\ reposList' = displayRepositories(currentRepos)
            /\ reposDisplay' = "block"
       ELSE /\ reposDisplay' = "none"
            /\ UNCHANGED reposList
    /\ UNCHANGED <<gate, now, usernameInput, spinner, errors, profile, searches, hist>>

\* ---------------------------------------------------------------- the clock
Tick ==
    /\ now + TickMs <= MaxNow
    /\ now' = now + TickMs
    /\ UNCHANGED <<gate, usernameInput, spinner, errors, profile, panel, searches, hist>>

Next ==
    \/ ClickSearch
    \/ PressEnter
    \/ ClickSuggestion
    \/ \E s \in SearchIds : ProfileResponse(s)
    \/ \E s \in SearchIds : ProfileNetworkError(s)
    \/ \E s \in SearchIds : ProfileJson(s)
    \/ \E s \in SearchIds : ReposResponse(s)
    \/ \E s \in SearchIds : ReposNetworkError(s)
    \/ \E s \in SearchIds : ReposJson(s)
    \/ toggleRepositories
    \/ Tick

Spec == Init /\ [][Next]_vars

\* The network answers: a fetch or a response.json() of search s that is
\* outstanding settles, one way or the other, sooner or later.
Settles(s) ==
    \/ ProfileResponse(s)
    \/ ProfileNetworkError(s)
    \/ ProfileJson(s)
    \/ ReposResponse(s)
    \/ ReposNetworkError(s)
    \/ ReposJson(s)
FetchesSettle == \A s \in SearchIds : WF_vars(Settles(s))

SpecLive == Init /\ [][Next]_vars /\ FetchesSettle


\* ---------------------------------------------------------- the rate gate
\* The gate on its own: the constructor has run with any RateState a
\* response can leave behind and any clock reading, and searches are
\* started; no response arrives and the clock stands still.
GateNumbers == {Num(0 - 1), Num(0), Num(1), Num(2), Num(InitialRemaining), NaN}
GateTimes   == {StartMs, 999, 1000, 1001, 1999, 2000, 2001}

InitGate ==
    /\ InitCommon
    /\ rateLimit \in [remaining : GateNumbers, reset : GateNumbers]
    /\ now \in GateTimes
    /\ checkResult = checkRateLimit(rateLimit, now)
    /\ storage = Absent
    /\ history = <<>>

NextGate ==
    \/ ClickSearch
    \/ PressEnter
    \/ ClickSuggestion

SpecGate == InitGate /\ [][NextGate]_vars

\* ------------------------------------------------------ the search history
NamePool == <<"a", "b", "c", "d", "e", "f", "g", "h">>
HistoryNames == {NamePool[i] : i \in 1 .. NumUsers}

\* JSON.stringify of an array of strings, as the sequence of its tokens
RECURSIVE Elements(_)
Elements(list) == IF list = <<>> THEN <<>>
                  ELSE IF Len(list) = 1 THEN <<list[1]>>
                  ELSE <<list[1], ",">> \o Elements(Tail(list))
JSONStringify(list) == <<"[">> \o Elements(list) \o <<"]">>
\* JSON.parse of such a text
JSONParse(text) ==
    LET inner == SubSeq(text, 2, Len(text) - 1)
    IN  [i \in 1 .. ((Len(inner) + 1) \div 2) |-> inner[2 * i - 1]]

\* localStorage.getItem('github-search-history') || '[]'
StoredText == IF storage.present /\ storage.text # <<>>
              THEN storage.text ELSE JSONStringify(<<>>)

\* history.includes(username)
Includes(list, username) == \E i \in 1 .. Len(list) : list[i] = username

\* addSearchHistory(): a fresh closure reads the stored list (page load)
addSearchHistory ==
    /\ history' = JSONParse(StoredText)
    /\ lastAdded' = ""                        \* no call on the new closure yet
    /\ UNCHANGED storage
    /\ UNCHANGED <<gate, now, usernameInput, spinner, errors, profile, panel, searches>>

\* the unshift without the pop
Unshifted_NoPop(list, username) == <<username>> \o list

\* the list addToHistory(username) leaves in `history`
Unshifted(list, username) ==
    LET longer == <<username>> \o list
    IN  IF Len(longer) > HistoryCap
        THEN SubSeq(longer, 1, Len(longer) - 1)     \* history.pop()
        ELSE longer

\* addToHistory(username)
addToHistory(username) ==
    /\ IF ~Includes(history, username)
       THEN /\ history' = Unshifted(history, username)
            /\ storage' = Header(JSONStringify(history'))
       ELSE UNCHANGED <<history, storage>>
    /\ lastAdded' = username
    /\ UNCHANGED <<gate, now, usernameInput, spinner, errors, profile, panel, searches>>

\* the user clears the site's local storage
ClearStorage ==
    /\ storage.present
    /\ storage' = Absent
    /\ UNCHANGED <<history, lastAdded>>
    /\ UNCHANGED <<gate, now, usernameInput, spinner, errors, profile, panel, searches>>

\* the names found in the stored history when the page is loaded
StoredNames == {NamePool[i] : i \in 1 .. NumUsers - 1}

\* lists of at most HistoryCap distinct names
RECURSIVE DistinctLists(_)
DistinctLists(n) ==
    IF n = 0 THEN {<<>>}
    ELSE LET shorter == DistinctLists(n - 1)
         IN  shorter \cup {<<u>> \o l : u \in StoredNames,
                                        l \in {x \in shorter : Len(x) = n - 1}}
StoredHistories == {l \in DistinctLists(HistoryCap) : \A i, j \in 1 .. Len(l) :
                                                          l[i] = l[j] => i = j}

InitHistory ==
    /\ InitCommon
    /\ rateLimit = [remaining |-> Num(InitialRemaining), reset |-> Num(InitialReset)]
    /\ now = StartMs
    /\ checkResult = checkRateLimit(rateLimit, now)
    /\ storage \in {Absent} \cup {Header(JSONStringify(l)) : l \in StoredHistories}
    /\ history = JSONParse(StoredText)

NextHistory ==
    \/ \E u \in HistoryNames : addToHistory(u)
    \/ addSearchHistory
    \/ ClearStorage

SpecHistory == InitHistory /\ [][NextHistory]_vars


\* ================================================================ claims

\* a search is started in this step as call s
Starts(s) == searches[s].pc = "idle" /\ searches'[s].pc # "idle"
\* the input is empty or made of white space only
IsBlank(v) == \A i \in 1 .. Len(v) : v[i] = " "
\* search s has issued no network request
NoRequest(rec) == rec.profile = NotCalled /\ rec.repos = NotCalled

\* C1. checkRateLimit returns false exactly when remaining <= 0 and the clock,
\* in whole epoch seconds, is strictly before reset (a comparison with NaN is
\* false); in every other case it returns true, and it never changes RateState.
GateClosed(rl, t) ==
    /\ ~rl.remaining.nan /\ rl.remaining.val <= 0
    /\ ~rl.reset.nan /\ (t \div MsPerSecond) < rl.reset.val
C1_CheckRateLimit ==
    /\ [](checkResult = ~GateClosed(rateLimit, now))
    /\ [][rateLimit' = rateLimit]_vars
\* a search passed the gate with no request left, at the very second of the reset
C1_Witness ==
    /\ rateLimit = [remaining |-> Num(0), reset |-> Num(1)]
    /\ now = 1000
    /\ checkResult
    /\ \E s \in SearchIds : searches[s].pc = "awaiting"

\* C2. A search started with a non-empty username while remaining is 0 and the
\* clock is before reset ends with the gate's RateLimited error and issues no
\* network request, also while another search is in flight.
C2_GateShortCircuit ==
    [][\A s \in SearchIds :
         ( /\ Starts(s)
           /\ ~IsBlank(usernameInput')
           /\ rateLimit.remaining = Num(0)
           /\ ~rateLimit.reset.nan
           /\ now < rateLimit.reset.val * MsPerSecond )
         => /\ searches'[s].pc = "returned"
            /\ searches'[s].error = MsgGateClosed
            /\ ~searches'[s].displayed
            /\ errorShown' /\ errorText' = MsgGateClosed
            /\ NoRequest(searches'[s])
            /\ \A r \in SearchIds \ {s} : searches'[r] = searches[r]]_vars
\* a search was turned away by the gate while an earlier one is still in flight
C2_Witness ==
    \E s, r \in SearchIds :
        /\ r < s
        /\ searches[s].pc = "returned"
        /\ searches[s].error = MsgGateClosed
        /\ NoRequest(searches[s])
        /\ searches[s].username # <<>>
        /\ searches[r].pc = "awaiting"

\* C3. A search whose input is empty or white space only is rejected with the
\* InvalidInput error before the gate is consulted: no network request, and
\* RateState, the stored repository list and the loading state stay as they are.
C3_InvalidInput ==
    [][\A s \in SearchIds :
         (Starts(s) /\ IsBlank(usernameInput'))
         => /\ searches'[s].pc = "returned"
            /\ searches'[s].error = MsgInvalidInput
            /\ errorShown' /\ errorText' = MsgInvalidInput
            /\ NoRequest(searches'[s])
            /\ \A r \in SearchIds \ {s} : searches'[r] = searches[r]
            /\ UNCHANGED <<rateLimit, checkResult, currentRepos, loading,
                           searchBtnDisabled>>]_vars
\* a blank search was rejected as invalid input while the gate is closed and
\* the spinner of an earlier search is still showing
C3_Witness ==
    \E s, r \in SearchIds :
        /\ r < s
        /\ searches[s].pc = "returned"
        /\ searches[s].error = MsgInvalidInput
        /\ usernameInput = <<" ">>
        /\ errorText = MsgInvalidInput
        /\ ~checkRateLimit(rateLimit, now)
        /\ searches[r].pc = "awaiting"
        /\ loading


\* the repository fetch of the search failed: a status that is not a success,
\* or a rejection (transport, or the body)
ReposFailed(rec) ==
    \/ rec.repos.state = "rejected"
    \/ rec.repos.state = "fulfilled" /\ ~(rec.repos.status \in 200 .. 299)
ProfileSucceeded(rec) ==
    rec.profile.state = "fulfilled" /\ rec.profile.status \in 200 .. 299

\* C4. With a successful (200) profile fetch, every failure of the repository
\* fetch (a non-success status, or a rejected request) lets the search succeed:
\* the profile is displayed with an empty repository list and no error message.
C4_RepoFailureNonFatal ==
    \A s \in SearchIds :
        (ProfileSucceeded(searches[s]) /\ ReposFailed(searches[s]))
        => /\ searches[s].pc = "returned"
           /\ searches[s].displayed
           /\ searches[s].error = NoMessage
           /\ profileFields.search = s => currentRepos = [search |-> s, items |-> <<>>]

\* C5. A profile response with status 404 ends the search with the
\* UserNotFound error, whatever the repository fetch does and in whatever
\* order the two fetches complete.
C5_NotFoundAlways ==
    \A s \in SearchIds :
        searches[s].profile.status = 404
        => /\ searches[s].pc = "returned"
           /\ searches[s].error = MsgNotFound
           /\ ~searches[s].displayed

\* C6. With a profile response that is not a success and a repository fetch
\* that did not reject, the error of the search follows from the profile
\* status alone: 403 gives RateLimited, in the server's wording and not the
\* gate's, and every status other than 404 and 403 gives FetchFailed.
C6_ErrorByProfileStatus ==
    /\ MsgForbidden # MsgGateClosed
    /\ \A s \in SearchIds :
         LET rec == searches[s] IN
         ( /\ rec.profile.status # 0
           /\ ~(rec.profile.status \in 200 .. 299)
           /\ rec.repos.state # "rejected" )
         => /\ rec.pc = "returned"
            /\ ~rec.displayed
            /\ rec.profile.status = 403 => rec.error = MsgForbidden
            /\ rec.profile.status \notin {403, 404} => rec.error = MsgFetchFailed
\* one search ended on a 403 and another on a 500, each with its repository
\* request answered
C6_Witness ==
    \E s, r \in SearchIds :
        /\ searches[s].profile.status = 403
        /\ searches[s].repos.state = "fulfilled"
        /\ searches[s].error = MsgForbidden
        /\ searches[r].profile.status = 500
        /\ searches[r].repos.state = "fulfilled"
        /\ searches[r].error = MsgFetchFailed


\* the profile request of search s is answered in this step with a success
ProfileSuccessArrives(s) ==
    /\ searches[s].profile.state = "pending"
    /\ searches'[s].profile.state = "json"
    /\ searches'[s].profile.status \in 200 .. 299
\* the number a header carries, when it is present and made of digits
IsNumeric(h) == h.present /\ h.text # <<>> /\ \A i \in 1 .. Len(h.text) : h.text[i] \in Digits
HeaderNumber(h) == Num(DecimalValue(h.text))

\* C7. RateState changes only in a step in which a profile request is answered
\* with a success, and is then overwritten with the remaining and reset
\* numbers of that response's headers; no other step changes it (a rejected
\* search, a profile response that is not a success, a profile transport
\* failure, any repository response).
C7_RateStateFrame ==
    [][ /\ rateLimit' # rateLimit => \E s \in SearchIds : ProfileSuccessArrives(s)
        /\ (\E s \in SearchIds : ProfileSuccessArrives(s))
           => /\ lastHeaders'.seen
              /\ IsNumeric(lastHeaders'.remaining)
                 => rateLimit'.remaining = HeaderNumber(lastHeaders'.remaining)
              /\ IsNumeric(lastHeaders'.reset)
                 => rateLimit'.reset = HeaderNumber(lastHeaders'.reset) ]_vars
\* a success response has overwritten both fields, and the 403 response of
\* another search has left them alone
C7_Witness ==
    /\ lastHeaders = [seen |-> TRUE, remaining |-> Header(<<"7">>),
                      reset |-> Header(<<"1">>)]
    /\ rateLimit = [remaining |-> Num(7), reset |-> Num(1)]
    /\ \E s, r \in SearchIds :
         /\ searches[s].profile = [state |-> "json", status |-> 200]
         /\ searches[r].profile = [state |-> "rejected", status |-> 403]

\* C8. The profile becomes visible, and the displayed profile and the stored
\* repository list are written, only as the last step of a search whose
\* profile fetch succeeded and whose two fetches have both completed; a search
\* that fails never shows the profile and never writes either of them.
C8_DisplayOnlyOnSuccess ==
    [][ /\ ( \/ profileShown' /\ ~profileShown
             \/ profileFields' # profileFields
             \/ currentRepos' # currentRepos )
           => \E s \in SearchIds :
                /\ searches[s].pc = "awaiting" /\ searches'[s].pc = "returned"
                /\ searches'[s].displayed /\ searches'[s].error = NoMessage
                /\ ProfileSucceeded(searches'[s])
                /\ searches'[s].repos.state = "fulfilled"
                /\ profileShown'
                /\ profileFields'.search = s /\ currentRepos'.search = s
        /\ \A s \in SearchIds :
             (searches'[s].error # NoMessage /\ searches[s].error = NoMessage)
             => /\ ~searches'[s].displayed
                /\ profileShown' => profileShown
                /\ UNCHANGED <<profileFields, currentRepos>> ]_vars
\* the profile of a search is on display after both of its fetches completed,
\* the repository one with a status that is not a success, and a later
\* search has failed without touching it
C8_Witness ==
    \E s, r \in SearchIds :
        /\ searches[s].displayed
        /\ profileShown /\ profileFields.search = s
        /\ currentRepos = [search |-> s, items |-> <<>>]
        /\ searches[s].repos = [state |-> "fulfilled", status |-> 500]
        /\ s < r
        /\ searches[r].error = MsgGateClosed


\* no name occurs twice in the list
NoDuplicates(list) == \A i, j \in 1 .. Len(list) : list[i] = list[j] => i = j
\* the list the stored text holds
StoredList == JSONParse(StoredText)

\* C9. Starting from a stored history of at most 5 distinct names, and through
\* any addToHistory calls and reloads, the history (in memory and as stored)
\* has at most 5 entries and no name twice; adding a name that is already in
\* the list leaves the list and the stored value unchanged.
C9_HistoryCapped ==
    /\ [](/\ Len(history) <= 5 /\ NoDuplicates(history)
          /\ Len(StoredList) <= 5 /\ NoDuplicates(StoredList))
    /\ [][\A u \in HistoryNames :
            (addToHistory(u) /\ \E i \in 1 .. Len(history) : history[i] = u)
            => history' = history /\ storage' = storage]_vars
\* a full history, stored as it is in memory, with a name at its front that
\* no stored history held when the page was loaded: addToHistory has put it
\* there and dropped the oldest entry
C9_Witness ==
    /\ Len(history) = 5
    /\ storage.present /\ StoredList = history
    /\ history[1] = NamePool[NumUsers]

\* a search resolves in this step
Resolves(s) == searches[s].pc = "awaiting" /\ searches'[s].pc = "returned"
Settled(p) == p.state \in {"fulfilled", "rejected"}

\* C10 as claimed. At the moment a search resolves, neither its profile fetch
\* nor its repository fetch is still in flight, also when the profile fetch
\* fails first.
C10_BothSettledAtResolve ==
    [][\A s \in SearchIds :
         Resolves(s) => Settled(searches'[s].profile) /\ Settled(searches'[s].repos)]_vars

\* C10 as amended. A search shows its result only after both of its network
\* calls have completed; it shows an error in the very step in which the
\* first of its two calls rejects, while the other call may still be in flight.
C10_JoinOrFailFast ==
    /\ [][\A s \in SearchIds :
            Resolves(s) =>
              IF searches'[s].displayed
              THEN /\ searches'[s].profile.state = "fulfilled"
                   /\ searches'[s].repos.state = "fulfilled"
                   /\ searches'[s].error = NoMessage
              ELSE /\ searches'[s].error # NoMessage
                   /\ "rejected" \in {searches'[s].profile.state, searches'[s].repos.state}
                   /\ ~loading' /\ errorShown']_vars
    /\ [](\A s \in SearchIds :
            searches[s].pc = "awaiting"
            => /\ searches[s].profile.state # "rejected"
               /\ searches[s].repos.state # "rejected")
\* a search has resolved on a 404 while its repository request is unanswered
C10_Witness ==
    \E s \in SearchIds :
        /\ searches[s].pc = "returned"
        /\ searches[s].error = MsgNotFound
        /\ searches[s].profile = [state |-> "rejected", status |-> 404]
        /\ searches[s].repos.state = "pending"


\* C11. Once a search has completed with a result, the displayed profile, the
\* stored repository list and, while the repositories panel is open, the
\* rendered repository list all come from that one search: no state shows
\* data of two different searches at once.
C11_OneSearchOnDisplay ==
    profileShown
    => /\ currentRepos.search = profileFields.search
       /\ (reposDisplay = "block" /\ reposList.search # 0)
          => reposList.search = profileFields.search


\* C12. Overlapping searches are last-writer-wins. Enter and the suggestion
\* buttons start a search whatever the loading state; starting a search
\* changes nothing of the searches already started (no cancellation); a
\* search that resolves with a result puts its own profile and its own
\* repository list on display, whichever search is displayed at that moment,
\* and nothing else writes them: the displayed profile and the stored list are
\* those of the search that resolved with a result last.
OverlapOpen ==
    NextSearch \in SearchIds => ENABLED PressEnter /\ ENABLED ClickSuggestion
StartKeepsOthers ==
    \A s, t \in SearchIds :
        (Starts(t) /\ s # t) => searches'[s] = searches[s]
LastWriterWins ==
    /\ \A s \in SearchIds :
          (Resolves(s) /\ searches'[s].displayed)
          => /\ profileFields'.search = s
             /\ currentRepos'.search = s
             /\ profileShown'
    /\ <<profileFields, currentRepos>>' # <<profileFields, currentRepos>>
       => \E s \in SearchIds : Resolves(s) /\ searches'[s].displayed
C12_LastWriterWins ==
    /\ []OverlapOpen
    /\ [][StartKeepsOthers /\ LastWriterWins]_vars

\* both searches got a result and the older one, resolving last, is on display
C12_Witness ==
    /\ \A s \in SearchIds : searches[s].pc = "returned" /\ searches[s].displayed
    /\ profileFields.search = 1
    /\ currentRepos.search = 1
    /\ profileShown


\* C13. The history lists the most recently added distinct usernames, the most
\* recent first: after an addToHistory call the username of that call is at
\* the front of the list, also when it was already in the list further back.
C13_MostRecentFirst ==
    lastAdded # "" => (history # <<>> /\ history[1] = lastAdded)


\* C14. After a successful profile response whose X-RateLimit-Remaining header
\* is absent, or present but not a number, the recorded remaining-request
\* count is 0.
C14_MissingHeadersCountZero ==
    (lastHeaders.seen /\ ~IsNumeric(lastHeaders.remaining))
    => rateLimit.remaining = Num(0)


\* C15. A search that has issued its requests resolves once its fetches have
\* settled, and resolves exactly once with exactly one outcome: its profile is
\* put on display and it shows no error, or it shows one error message and
\* writes no profile. The step that resolves it clears the loading indicator
\* and enables the search button; afterwards its outcome never changes, and a
\* request is issued only by the step that starts its search.
OneOutcome ==
    \A s \in SearchIds :
        LET rec == searches[s] IN
        /\ rec.pc = "awaiting"
           => rec.error = NoMessage /\ ~rec.displayed
        /\ (rec.pc = "returned" /\ ~NoRequest(rec))
           => rec.displayed = (rec.error = NoMessage)
        /\ (Settled(rec.profile) /\ Settled(rec.repos)) => rec.pc = "returned"
ResolvesOnce ==
    \A s \in SearchIds :
        /\ Resolves(s)
           => /\ ~loading' /\ ~searchBtnDisabled'
              /\ IF searches'[s].displayed
                 THEN /\ profileShown' /\ profileFields'.search = s
                      /\ UNCHANGED errors
                 ELSE /\ errorShown' /\ errorText' = searches'[s].error
                      /\ UNCHANGED profile
        /\ searches[s].pc = "returned"
           => /\ searches'[s].pc = "returned"
              /\ searches'[s].error = searches[s].error
              /\ searches'[s].displayed = searches[s].displayed
        /\ \A p \in {"profile", "repos"} :
              (searches'[s][p].state = "pending" /\ searches[s][p].state # "pending")
              => Starts(s)
C15_SearchResolves ==
    /\ []OneOutcome
    /\ [][ResolvesOnce]_vars
    /\ [](\A s \in SearchIds :
            searches[s].pc = "awaiting" => <>(searches[s].pc = "returned"))

\* one search has resolved with its profile, the other with the error of a
\* response body that did not parse; all four fetches have settled
C15_Witness ==
    \E s, r \in SearchIds :
        /\ searches[s].pc = "returned" /\ searches[s].displayed
        /\ searches[s].error = NoMessage
        /\ searches[r].pc = "returned" /\ ~searches[r].displayed
        /\ searches[r].error = MsgBody
        /\ \A t \in {s, r} : Settled(searches[t].profile) /\ Settled(searches[t].repos)
        /\ ~loading /\ ~searchBtnDisabled

====
